---- MODULE Spec2Model ----
(***************************************************************************)
(* Multi-head self-attention block of from_scratch_transformer             *)
(* (multihead_attention.py): construction, split_heads / combine_heads,    *)
(* scaled_dot_product_attention, forward, the hand-written backward, step  *)
(* and clear_grad, as a state machine over the block's fields.             *)
(*                                                                         *)
(* Numbers.  The code computes in float32 tensors.  Here a tensor is a     *)
(* tuple (rows) of tuples of integers, a 3-D tensor a tuple of matrices,   *)
(* all 1-based.  Two values of the float domain that the claims depend on  *)
(* are kept as distinguished values: NegInf (the masked score) and NaN     *)
(* (what softmax yields for a row of -inf only).  Attention weights are    *)
(* fixed-point numbers with unit ONE (ONE stands for 1.0), exp is the      *)
(* clamped power of two Exp, sqrt is the integer square root.              *)
(*                                                                         *)
(* Layers.  Input, Linear and Concat live in from_scratch_transformer/     *)
(* layers.py; the operators Input*, Linear*, Concat* below give them the   *)
(* behaviour the specification document states for the Parameter, the      *)
(* Projection and the Concat adapter.                                      *)
(***************************************************************************)
EXTENDS Integers, Sequences, FiniteSets, TLC

(* ------------------------------ bounds --------------------------------- *)
MaxCalls == 3
LongCalls == 6
MaxDModel == 3
SeqLen == 2
ONE == 8
ExpClamp == 2
PureMaxD == 6
PureMaxT == 3
LearningRates == {1, 2}
InputSeeds == {1, 2}

(* ------------------------- the float domain ---------------------------- *)
NaN == 0 - 2^30
NegInf == 0 - 2^29
None == <<>>

NAdd(a, b) == IF a = NaN \/ b = NaN THEN NaN ELSE a + b
NSub(a, b) == IF a = NaN \/ b = NaN THEN NaN ELSE a - b
NMul(a, b) == IF a = NaN \/ b = NaN THEN NaN ELSE a * b
NDiv(a, c) == IF a = NaN THEN NaN ELSE a \div c

RECURSIVE NSum(_)
NSum(s) == IF s = <<>> THEN 0 ELSE NAdd(Head(s), NSum(Tail(s)))

RECURSIVE ISqrtFrom(_, _)
ISqrtFrom(n, r) == IF (r + 1) * (r + 1) > n THEN r ELSE ISqrtFrom(n, r + 1)
Sqrt(n) == ISqrtFrom(n, 1)

(* ------------------------------ tensors -------------------------------- *)
(* Tup(f) is f as an explicit tuple: every element is computed once, when  *)
(* the tensor is built.  The({e : a \in {a0}}) is e with a bound to the     *)
(* value of the argument a0, so that an argument is computed once per call. *)
Tup(f) == f \o <<>>
The(S) == CHOOSE r \in S : TRUE
Rows(m) == Len(m)
Cols(m) == IF m = <<>> THEN 0 ELSE Len(m[1])
Zeros(r, c) == Tup([i \in 1..r |-> Tup([j \in 1..c |-> 0])])
ZerosLike(m) == IF m = <<>> THEN <<>> ELSE Zeros(Rows(m), Cols(m))
MAdd(a0, b0) ==
  The({
    Tup([i \in 1..Rows(a) |-> Tup([j \in 1..Cols(a) |-> NAdd(a[i][j], b[i][j])])])
    : a \in {a0}, b \in {b0}})
MSub(a0, b0) ==
  The({
    Tup([i \in 1..Rows(a) |-> Tup([j \in 1..Cols(a) |-> NSub(a[i][j], b[i][j])])])
    : a \in {a0}, b \in {b0}})
MScale(c0, a0) ==
  The({
    Tup([i \in 1..Rows(a) |-> Tup([j \in 1..Cols(a) |-> NMul(c, a[i][j])])])
    : c \in {c0}, a \in {a0}})
MDiv(a0, c0) ==
  The({
    Tup([i \in 1..Rows(a) |-> Tup([j \in 1..Cols(a) |-> NDiv(a[i][j], c)])])
    : a \in {a0}, c \in {c0}})
Transpose(a0) ==
  The({
    Tup([j \in 1..Cols(a) |-> Tup([i \in 1..Rows(a) |-> a[i][j]])])
    : a \in {a0}})
MatMul(a0, b0) ==
  The({
    Tup([i \in 1..Rows(a) |-> Tup([j \in 1..Cols(b) |->
       NSum(Tup([k \in 1..Cols(a) |-> NMul(a[i][k], b[k][j])]))])])
    : a \in {a0}, b \in {b0}})
ColSum(a0) ==
  The({
    << Tup([j \in 1..Cols(a) |-> NSum(Tup([i \in 1..Rows(a) |-> a[i][j]]))]) >>
    : a \in {a0}})
AddRow(a0, b0) ==
  The({
    Tup([i \in 1..Rows(a) |-> Tup([j \in 1..Cols(a) |-> NAdd(a[i][j], b[1][j])])])
    : a \in {a0}, b \in {b0}})
BMatMul(a0, b0) ==
  The({
    Tup([h \in 1..Len(a) |-> MatMul(a[h], b[h])])
    : a \in {a0}, b \in {b0}})
BTranspose(a0) ==
  The({
    Tup([h \in 1..Len(a) |-> Transpose(a[h])])
    : a \in {a0}})
BDiv(a0, c0) ==
  The({
    Tup([h \in 1..Len(a) |-> MDiv(a[h], c)])
    : a \in {a0}, c \in {c0}})
IsZero(m) == \A i \in 1..Rows(m) : \A j \in 1..Cols(m) : m[i][j] = 0

(* row-major storage of a contiguous tensor, and views on it *)
Flat2(x0) ==
  The({
    Tup([n \in 1..(Rows(x) * Cols(x)) |->
                 x[((n - 1) \div Cols(x)) + 1][((n - 1) % Cols(x)) + 1]])
    : x \in {x0}})
Flat3(y0) ==
  The({
    Tup([n \in 1..(Len(y) * Len(y[1]) * Len(y[1][1])) |->
          y[((n - 1) \div (Len(y[1]) * Len(y[1][1]))) + 1]
           [(((n - 1) \div Len(y[1][1])) % Len(y[1])) + 1]
           [((n - 1) % Len(y[1][1])) + 1]])
    : y \in {y0}})
View2(flat0, A0, B0) ==
  The({
    Tup([a \in 1..A |-> Tup([b \in 1..B |-> flat[(a - 1) * B + b]])])
    : flat \in {flat0}, A \in {A0}, B \in {B0}})
View3(flat0, A0, B0, C0) ==
  The({
    Tup([a \in 1..A |-> Tup([b \in 1..B |-> Tup([c \in 1..C |->
       flat[((a - 1) * B + (b - 1)) * C + c]])])])
    : flat \in {flat0}, A \in {A0}, B \in {B0}, C \in {C0}})
Transpose01(y0) ==
  The({
    Tup([b \in 1..Len(y[1]) |-> Tup([a \in 1..Len(y) |-> y[a][b]])])
    : y \in {y0}})
(* ------------------- layers.py: Input, Linear, Concat ------------------ *)
(* Input (the Parameter): a value `output` and a gradient accumulator;      *)
(* step is output -= learning_rate * grad, clear_grad zeroes the grad.      *)
InputNew(r, c) == [output |-> Zeros(r, c), grad |-> Zeros(r, c)]
InputSet(l, t) == [l EXCEPT !.output = t]
Rand(seed, salt, r, c) ==
  Tup([i \in 1..r |-> Tup([j \in 1..c |-> ((seed * 5 + salt * 3 + i * 2 + j * 7) % 3) - 1])])
InputRandomize(l, seed, salt) ==
  [l EXCEPT !.output = Rand(seed, salt, Rows(l.output), Cols(l.output))]
Accumulate(acc0, g0) ==
  The({
    IF acc = <<>> THEN g ELSE IF g = <<>> THEN acc ELSE MAdd(acc, g)
    : acc \in {acc0}, g \in {g0}})
InputStep(l, lr) == [l EXCEPT !.output = MSub(l.output, MScale(lr, l.grad))]
LayerClearGrad(l) == [l EXCEPT !.grad = ZerosLike(l.output)]

(* Linear (the Projection): output = X.W + b; backward pushes its own grad  *)
(* to X, W and b; step leaves W and b to their own step.                    *)
LinearNew == [X |-> "None", output |-> <<>>, grad |-> <<>>]
LinearForward(X, W, b) == AddRow(MatMul(X, W.output), b.output)
GradOr(g0, like0) ==
  The({
    IF g = <<>> THEN ZerosLike(like) ELSE g
    : g \in {g0}, like \in {like0}})
LinearGradX(lin, W) == MatMul(GradOr(lin.grad, lin.output), Transpose(W.output))
LinearGradW(lin, X) == MatMul(Transpose(X), GradOr(lin.grad, lin.output))
LinearGradB(lin) == ColSum(GradOr(lin.grad, lin.output))
LinearStep(lin, lr) == lin

(* Concat: joins the layers' outputs along the feature axis; backward fans  *)
(* its grad back out to the layers, in the order they were joined.          *)
RECURSIVE JoinCols(_)
JoinCols(ms) ==
  IF Len(ms) = 1 THEN ms[1]
  ELSE Tup([i \in 1..Rows(ms[1]) |-> ms[1][i] \o JoinCols(Tail(ms))[i]])
NoConcat == [isNone |-> TRUE, output |-> <<>>, grad |-> <<>>, layers_list |-> <<>>]
ConcatForward(layers) ==
  [isNone |-> FALSE,
   output |-> JoinCols(Tup([h \in 1..Len(layers) |-> layers[h].output])),
   grad |-> <<>>,
   layers_list |-> layers]
ColSlice(m0, from0, width0) ==
  The({
    Tup([i \in 1..Rows(m) |-> Tup([j \in 1..width |-> m[i][from + j]])])
    : m \in {m0}, from \in {from0}, width \in {width0}})
ConcatBackward(c0) ==
  The({
    [c EXCEPT !.layers_list =
       Tup([h \in 1..Len(c.layers_list) |->
          [c.layers_list[h] EXCEPT
             !.grad = Accumulate(@, ColSlice(GradOr(c.grad, c.output),
                                             (h - 1) * Cols(c.layers_list[h].output),
                                             Cols(c.layers_list[h].output)))]])]
    : c \in {c0}})
(* ------------------------------- state --------------------------------- *)
(* The block's fields keep their names.  x_layer is the caller's layer that *)
(* the last forward bound to the three projections.  calls, raised,         *)
(* learning_rate, returned, last_forward and forward_log record the calls   *)
(* made; scores, attn_out, stacked, grad_* are the locals of the last       *)
(* forward and backward.  budget is the number of calls the caller makes.   *)
(* pure_* belong to the split/combine round trip.                           *)
VARIABLES
  constructed, ctor_args,
  d_model, num_heads, d_k,
  W_q, b_q, W_k, b_k, W_v, b_v, W_o, b_o,
  linear_q, linear_k, linear_v, linear_out,
  qh, kh, vh, attn, mask, concat,
  x_layer,
  budget, calls, raised, learning_rate, returned, last_forward, forward_log,
  scores, attn_out,
  stacked, grad_attn, grad_vh, grad_scores_raw, grad_scores, grad_qh, grad_kh, bwd_mask,
  pure_pc, pure_x, pure_split, pure_combined

params == <<W_q, b_q, W_k, b_k, W_v, b_v, W_o, b_o>>
linears == <<linear_q, linear_k, linear_v, linear_out>>
cache == <<qh, kh, vh, attn, mask, concat>>
shape == <<constructed, ctor_args, d_model, num_heads, d_k>>
fwd_locals == <<scores, attn_out>>
bwd_locals == <<stacked, grad_attn, grad_vh, grad_scores_raw, grad_scores, grad_qh, grad_kh, bwd_mask>>
pure == <<pure_pc, pure_x, pure_split, pure_combined>>
vars == <<shape, params, linears, cache, x_layer, budget, calls, raised, learning_rate, returned,
          last_forward, forward_log, fwd_locals, bwd_locals, pure>>

ParamValues == [W_q |-> W_q.output, b_q |-> b_q.output, W_k |-> W_k.output,
                b_k |-> b_k.output, W_v |-> W_v.output, b_v |-> b_v.output,
                W_o |-> W_o.output, b_o |-> b_o.output]
ParamGrads == [W_q |-> W_q.grad, b_q |-> b_q.grad, W_k |-> W_k.grad,
               b_k |-> b_k.grad, W_v |-> W_v.grad, b_v |-> b_v.grad,
               W_o |-> W_o.grad, b_o |-> b_o.grad]
ParamNames == {"W_q", "b_q", "W_k", "b_k", "W_v", "b_v", "W_o", "b_o"}

(* ----------------------------- __init__ -------------------------------- *)
ConstructibleIfNotLarger(dm, nh) == dm >= nh
Constructible(dm, nh) == dm % nh = 0
DK(dm, nh) == dm \div nh
NewParam(r, c, seed, salt) == InputRandomize(InputNew(r, c), seed, salt)

Construct(dm, nh, seed) ==
  /\ ctor_args = [d_model |-> dm, num_heads |-> nh]
  /\ constructed = Constructible(dm, nh)
  /\ IF Constructible(dm, nh)
     THEN /\ d_model = dm
          /\ num_heads = nh
          /\ d_k = DK(dm, nh)
          /\ W_q = NewParam(dm, dm, seed, 1)
          /\ b_q = NewParam(1, dm, seed, 2)
          /\ W_k = NewParam(dm, dm, seed, 3)
          /\ b_k = NewParam(1, dm, seed, 4)
          /\ W_v = NewParam(dm, dm, seed, 5)
          /\ b_v = NewParam(1, dm, seed, 6)
          /\ W_o = NewParam(dm, dm, seed, 7)
          /\ b_o = NewParam(1, dm, seed, 8)
     ELSE /\ d_model = 0
          /\ num_heads = 0
          /\ d_k = 0
          /\ W_q = InputNew(0, 0) /\ b_q = InputNew(0, 0)
          /\ W_k = InputNew(0, 0) /\ b_k = InputNew(0, 0)
          /\ W_v = InputNew(0, 0) /\ b_v = InputNew(0, 0)
          /\ W_o = InputNew(0, 0) /\ b_o = InputNew(0, 0)
  /\ linear_q = LinearNew
  /\ linear_k = LinearNew
  /\ linear_v = LinearNew
  /\ linear_out = LinearNew
  /\ qh = None
  /\ kh = None
  /\ vh = None
  /\ attn = None
  /\ mask = None
  /\ concat = NoConcat

NoForward == [x |-> <<>>, mask |-> None, values |-> [p \in ParamNames |-> <<>>]]
NoReturn == [output |-> <<>>, attn |-> <<>>]

NoCalls ==
  /\ x_layer = InputNew(0, 0)
  /\ calls = <<>>
  /\ raised = FALSE
  /\ learning_rate = 0
  /\ returned = NoReturn
  /\ last_forward = NoForward
  /\ forward_log = <<>>
  /\ scores = <<>>
  /\ attn_out = <<>>
  /\ stacked = <<>>
  /\ grad_attn = <<>>
  /\ grad_vh = <<>>
  /\ grad_scores_raw = <<>>
  /\ grad_scores = <<>>
  /\ grad_qh = <<>>
  /\ grad_kh = <<>>
  /\ bwd_mask = None

PureIdle ==
  /\ pure_pc = "idle"
  /\ pure_x = <<>>
  /\ pure_split = <<>>
  /\ pure_combined = <<>>

Init ==
  /\ \E dm \in 1..MaxDModel, nh \in 1..MaxDModel : Construct(dm, nh, 1)
  /\ budget = MaxCalls
  /\ NoCalls
  /\ PureIdle

(* ------------------- split_heads / combine_heads ----------------------- *)
split_heads(x) == Transpose01(View3(Flat2(x), Rows(x), num_heads, d_k))
CombineWithoutTranspose(x) == View2(Flat3(x), Len(x[1]), d_model)
combine_heads(x) == View2(Flat3(Transpose01(x)), Len(x[1]), d_model)

(* ------------------ scaled_dot_product_attention ----------------------- *)
Clamp(s) == IF s > ExpClamp THEN ExpClamp ELSE IF s < 0 - ExpClamp THEN 0 - ExpClamp ELSE s
Exp(s) == IF s = NegInf THEN 0 ELSE 2^(Clamp(s) + ExpClamp)
ExpRow(r0) ==
  The({
    Tup([j \in 1..Len(r) |-> IF r[j] = NaN THEN 0 ELSE Exp(r[j])])
    : r \in {r0}})
SoftmaxOf(r0, e0, total0) ==
  The({
    IF total = 0 \/ \E j \in 1..Len(r) : r[j] = NaN
    THEN Tup([j \in 1..Len(r) |-> NaN])
    ELSE Tup([j \in 1..Len(r) |-> (ONE * e[j]) \div total])
    : r \in {r0}, e \in {e0}, total \in {total0}})
SoftmaxRow(r) == SoftmaxOf(r, ExpRow(r), NSum(ExpRow(r)))
Softmax(t0) ==
  The({
    Tup([h \in 1..Len(t) |-> Tup([i \in 1..Len(t[h]) |-> SoftmaxRow(t[h][i])])])
    : t \in {t0}})
MaskedFill(t0, m0, val0) ==
  The({
    Tup([h \in 1..Len(t) |-> Tup([i \in 1..Len(t[h]) |-> Tup([j \in 1..Len(t[h][i]) |->
       IF m[i][j] = 0 THEN val ELSE t[h][i][j]])])])
    : t \in {t0}, m \in {m0}, val \in {val0}})
SdpaRawScores(q, k) == BDiv(BMatMul(q, BTranspose(k)), Sqrt(d_k))
SdpaScoresZeroFill(q, k, m) ==
  IF m # None THEN MaskedFill(SdpaRawScores(q, k), m, 0) ELSE SdpaRawScores(q, k)
SdpaScores(q, k, m) ==
  IF m # None THEN MaskedFill(SdpaRawScores(q, k), m, NegInf) ELSE SdpaRawScores(q, k)
SdpaOutput(a, v) == BDiv(BMatMul(a, v), ONE)

(* ------------------------------ forward -------------------------------- *)
HeadLayers(out0) ==
  The({
    Tup([h \in 1..num_heads |-> InputSet(InputNew(Rows(out[h]), Cols(out[h])), out[h])])
    : out \in {out0}})
ForwardDropsConcat(xl, m) ==
  /\ constructed
  /\ Len(calls) < budget
  /\ x_layer' = xl
  /\ linear_q' = [linear_q EXCEPT !.X = "x_layer", !.output = LinearForward(xl.output, W_q, b_q)]
  /\ linear_k' = [linear_k EXCEPT !.X = "x_layer", !.output = LinearForward(xl.output, W_k, b_k)]
  /\ linear_v' = [linear_v EXCEPT !.X = "x_layer", !.output = LinearForward(xl.output, W_v, b_v)]
  /\ qh' = split_heads(linear_q'.output)
  /\ kh' = split_heads(linear_k'.output)
  /\ vh' = split_heads(linear_v'.output)
  /\ mask' = m
  /\ scores' = SdpaScores(qh', kh', m)
  /\ attn' = Softmax(scores')
  /\ attn_out' = SdpaOutput(attn', vh')
  /\ concat' = [ConcatForward(HeadLayers(attn_out')) EXCEPT !.isNone = TRUE]
  /\ linear_out' = [linear_out EXCEPT !.X = "concat",
                                      !.output = LinearForward(concat'.output, W_o, b_o)]
  /\ returned' = [output |-> linear_out'.output, attn |-> attn']
  /\ last_forward' = [x |-> xl.output, mask |-> m, values |-> ParamValues]
  /\ forward_log' = Append(forward_log,
        [x |-> xl.output, mask |-> m, output |-> linear_out'.output, attn |-> attn'])
  /\ calls' = Append(calls, "forward")
  /\ raised' = FALSE
  /\ UNCHANGED <<shape, budget, params, learning_rate, bwd_locals, pure>>

ForwardKeepsMask(xl, m) ==
  /\ constructed
  /\ Len(calls) < budget
  /\ x_layer' = xl
  /\ linear_q' = [linear_q EXCEPT !.X = "x_layer", !.output = LinearForward(xl.output, W_q, b_q)]
  /\ linear_k' = [linear_k EXCEPT !.X = "x_layer", !.output = LinearForward(xl.output, W_k, b_k)]
  /\ linear_v' = [linear_v EXCEPT !.X = "x_layer", !.output = LinearForward(xl.output, W_v, b_v)]
  /\ qh' = split_heads(linear_q'.output)
  /\ kh' = split_heads(linear_k'.output)
  /\ vh' = split_heads(linear_v'.output)
  /\ mask' = IF m # None THEN m ELSE mask
  /\ scores' = SdpaScores(qh', kh', m)
  /\ attn' = Softmax(scores')
  /\ attn_out' = SdpaOutput(attn', vh')
  /\ concat' = ConcatForward(HeadLayers(attn_out'))
  /\ linear_out' = [linear_out EXCEPT !.X = "concat",
                                      !.output = LinearForward(concat'.output, W_o, b_o)]
  /\ returned' = [output |-> linear_out'.output, attn |-> attn']
  /\ last_forward' = [x |-> xl.output, mask |-> m, values |-> ParamValues]
  /\ forward_log' = Append(forward_log,
        [x |-> xl.output, mask |-> m, output |-> linear_out'.output, attn |-> attn'])
  /\ calls' = Append(calls, "forward")
  /\ raised' = FALSE
  /\ UNCHANGED <<shape, budget, params, learning_rate, bwd_locals, pure>>

ForwardStaleMask(xl, m) ==
  /\ constructed
  /\ Len(calls) < budget
  /\ x_layer' = xl
  /\ linear_q' = [linear_q EXCEPT !.X = "x_layer", !.output = LinearForward(xl.output, W_q, b_q)]
  /\ linear_k' = [linear_k EXCEPT !.X = "x_layer", !.output = LinearForward(xl.output, W_k, b_k)]
  /\ linear_v' = [linear_v EXCEPT !.X = "x_layer", !.output = LinearForward(xl.output, W_v, b_v)]
  /\ qh' = split_heads(linear_q'.output)
  /\ kh' = split_heads(linear_k'.output)
  /\ vh' = split_heads(linear_v'.output)
  /\ mask' = m
  /\ scores' = SdpaScores(qh', kh', mask)
  /\ attn' = Softmax(scores')
  /\ attn_out' = SdpaOutput(attn', vh')
  /\ concat' = ConcatForward(HeadLayers(attn_out'))
  /\ linear_out' = [linear_out EXCEPT !.X = "concat",
                                      !.output = LinearForward(concat'.output, W_o, b_o)]
  /\ returned' = [output |-> linear_out'.output, attn |-> attn']
  /\ last_forward' = [x |-> xl.output, mask |-> m, values |-> ParamValues]
  /\ forward_log' = Append(forward_log,
        [x |-> xl.output, mask |-> m, output |-> linear_out'.output, attn |-> attn'])
  /\ calls' = Append(calls, "forward")
  /\ raised' = FALSE
  /\ UNCHANGED <<shape, budget, params, learning_rate, bwd_locals, pure>>

Forward(xl, m) ==
  /\ constructed
  /\ Len(calls) < budget
  /\ x_layer' = xl
  /\ linear_q' = [linear_q EXCEPT !.X = "x_layer", !.output = LinearForward(xl.output, W_q, b_q)]
  /\ linear_k' = [linear_k EXCEPT !.X = "x_layer", !.output = LinearForward(xl.output, W_k, b_k)]
  /\ linear_v' = [linear_v EXCEPT !.X = "x_layer", !.output = LinearForward(xl.output, W_v, b_v)]
  /\ qh' = split_heads(linear_q'.output)
  /\ kh' = split_heads(linear_k'.output)
  /\ vh' = split_heads(linear_v'.output)
  /\ mask' = m
  /\ scores' = SdpaScores(qh', kh', m)
  /\ attn' = Softmax(scores')
  /\ attn_out' = SdpaOutput(attn', vh')
  /\ concat' = ConcatForward(HeadLayers(attn_out'))
  /\ linear_out' = [linear_out EXCEPT !.X = "concat",
                                      !.output = LinearForward(concat'.output, W_o, b_o)]
  /\ returned' = [output |-> linear_out'.output, attn |-> attn']
  /\ last_forward' = [x |-> xl.output, mask |-> m, values |-> ParamValues]
  /\ forward_log' = Append(forward_log,
        [x |-> xl.output, mask |-> m, output |-> linear_out'.output, attn |-> attn'])
  /\ calls' = Append(calls, "forward")
  /\ raised' = FALSE
  /\ UNCHANGED <<shape, budget, params, learning_rate, bwd_locals, pure>>

(* the caller's inputs: layers holding a SeqLen x d_model tensor, and masks *)
XGen(seed, r, c) ==
  Tup([i \in 1..r |-> Tup([j \in 1..c |-> ((seed * 2 + i + j * seed) % 3) - 1])])
Causal(t) == Tup([i \in 1..t |-> Tup([j \in 1..t |-> IF j <= i THEN 1 ELSE 0])])
Blocked(t) == Tup([i \in 1..t |-> Tup([j \in 1..t |-> IF i = 1 THEN 0 ELSE 1])])
Masks == {None, Causal(SeqLen), Blocked(SeqLen)}
InputLayer(s) == InputSet(InputNew(SeqLen, d_model), XGen(s, SeqLen, d_model))
InputLayers == {InputLayer(s) : s \in InputSeeds}

UpstreamGrad == Tup([i \in 1..SeqLen |-> Tup([j \in 1..d_model |-> ((i + j) % 2) + 1])])
Deposits == {<<>>, UpstreamGrad}

(* ------------------------------ backward ------------------------------- *)
(* Elementwise product of a tensor with the attention weights (unit ONE).  *)
BMulAttn(a0, g0) ==
  The({
    Tup([h \in 1..Len(a) |-> Tup([i \in 1..Len(a[h]) |-> Tup([j \in 1..Len(a[h][i]) |->
       NDiv(NMul(a[h][i][j], g[h][i][j]), ONE)])])])
    : a \in {a0}, g \in {g0}})
RowSums(t0) ==
  The({
    Tup([h \in 1..Len(t) |-> Tup([i \in 1..Len(t[h]) |-> NSum(t[h][i])])])
    : t \in {t0}})
SoftmaxBackward(a0, g0, sum_grad0) ==
  The({
    Tup([h \in 1..Len(a) |-> Tup([i \in 1..Len(a[h]) |-> Tup([j \in 1..Len(a[h][i]) |->
       NDiv(NMul(a[h][i][j], NSub(g[h][i][j], sum_grad[h][i])), ONE)])])])
    : a \in {a0}, g \in {g0}, sum_grad \in {sum_grad0}})
MaskGradScoresNegInf(t, m) == IF m # None THEN MaskedFill(t, m, NegInf) ELSE t
MaskGradScores(t, m) == IF m # None THEN MaskedFill(t, m, 0) ELSE t
HeadGrads(c0) ==
  The({
    Tup([h \in 1..Len(c.layers_list) |-> c.layers_list[h].grad])
    : c \in {c0}})
(* backward on a block that never ran forward: linear_out has no X and     *)
(* self.concat is None, so the call raises before it changes a field.      *)
BackwardUnset ==
  /\ constructed
  /\ Len(calls) < budget
  /\ concat.isNone
  /\ calls' = Append(calls, "backward")
  /\ raised' = TRUE
  /\ UNCHANGED <<shape, budget, params, linears, cache, x_layer, learning_rate, returned,
                 last_forward, forward_log, fwd_locals, bwd_locals, pure>>

(* dep: what the consumer of the block's output added to linear_out.grad   *)
(* before the call (<<>>: nothing).                                        *)
Backward(dep) ==
  /\ constructed
  /\ Len(calls) < budget
  /\ ~concat.isNone
  /\ linear_out' = [linear_out EXCEPT !.grad = Accumulate(@, dep)]
  /\ W_o' = [W_o EXCEPT !.grad = Accumulate(@, LinearGradW(linear_out', concat.output))]
  /\ b_o' = [b_o EXCEPT !.grad = Accumulate(@, LinearGradB(linear_out'))]
  /\ concat' = ConcatBackward(
                 [concat EXCEPT !.grad = Accumulate(@, LinearGradX(linear_out', W_o))])
  /\ stacked' = HeadGrads(concat')
  /\ grad_attn' = BMatMul(stacked', BTranspose(vh))
  /\ grad_vh' = BDiv(BMatMul(BTranspose(attn), stacked'), ONE)
  /\ grad_scores_raw' = SoftmaxBackward(attn, grad_attn', RowSums(BMulAttn(attn, grad_attn')))
  /\ bwd_mask' = mask
  /\ grad_scores' = MaskGradScores(grad_scores_raw', mask)
  /\ grad_qh' = BDiv(BMatMul(grad_scores', kh), Sqrt(d_k))
  /\ grad_kh' = BDiv(BMatMul(BTranspose(grad_scores'), qh), Sqrt(d_k))
  /\ linear_q' = [linear_q EXCEPT !.grad = combine_heads(grad_qh')]
  /\ linear_k' = [linear_k EXCEPT !.grad = combine_heads(grad_kh')]
  /\ linear_v' = [linear_v EXCEPT !.grad = combine_heads(grad_vh')]
  /\ W_v' = [W_v EXCEPT !.grad = Accumulate(@, LinearGradW(linear_v', x_layer.output))]
  /\ b_v' = [b_v EXCEPT !.grad = Accumulate(@, LinearGradB(linear_v'))]
  /\ W_k' = [W_k EXCEPT !.grad = Accumulate(@, LinearGradW(linear_k', x_layer.output))]
  /\ b_k' = [b_k EXCEPT !.grad = Accumulate(@, LinearGradB(linear_k'))]
  /\ W_q' = [W_q EXCEPT !.grad = Accumulate(@, LinearGradW(linear_q', x_layer.output))]
  /\ b_q' = [b_q EXCEPT !.grad = Accumulate(@, LinearGradB(linear_q'))]
  /\ x_layer' = [x_layer EXCEPT !.grad =
        Accumulate(Accumulate(Accumulate(@, LinearGradX(linear_v', W_v)),
                              LinearGradX(linear_k', W_k)),
                   LinearGradX(linear_q', W_q))]
  /\ calls' = Append(calls, "backward")
  /\ raised' = FALSE
  /\ UNCHANGED <<shape, budget, qh, kh, vh, attn, mask, learning_rate, returned,
                 last_forward, forward_log, fwd_locals, pure>>

(* -------------------------------- step --------------------------------- *)
StepTwice(lr) ==
  /\ constructed
  /\ Len(calls) < budget
  /\ linear_q' = LinearStep(linear_q, lr)
  /\ linear_k' = LinearStep(linear_k, lr)
  /\ linear_v' = LinearStep(linear_v, lr)
  /\ linear_out' = LinearStep(linear_out, lr)
  /\ W_k' = InputStep(InputStep(W_k, lr), lr)
  /\ W_q' = InputStep(InputStep(W_q, lr), lr)
  /\ W_v' = InputStep(InputStep(W_v, lr), lr)
  /\ W_o' = InputStep(InputStep(W_o, lr), lr)
  /\ b_k' = InputStep(InputStep(b_k, lr), lr)
  /\ b_q' = InputStep(InputStep(b_q, lr), lr)
  /\ b_v' = InputStep(InputStep(b_v, lr), lr)
  /\ b_o' = InputStep(InputStep(b_o, lr), lr)
  /\ learning_rate' = lr
  /\ forward_log' = <<>>
  /\ calls' = Append(calls, "step")
  /\ raised' = FALSE
  /\ UNCHANGED <<shape, budget, cache, x_layer, returned, last_forward, fwd_locals, bwd_locals, pure>>

Step(lr) ==
  /\ constructed
  /\ Len(calls) < budget
  /\ linear_q' = LinearStep(linear_q, lr)
  /\ linear_k' = LinearStep(linear_k, lr)
  /\ linear_v' = LinearStep(linear_v, lr)
  /\ linear_out' = LinearStep(linear_out, lr)
  /\ W_k' = InputStep(W_k, lr)
  /\ W_q' = InputStep(W_q, lr)
  /\ W_v' = InputStep(W_v, lr)
  /\ W_o' = InputStep(W_o, lr)
  /\ b_k' = InputStep(b_k, lr)
  /\ b_q' = InputStep(b_q, lr)
  /\ b_v' = InputStep(b_v, lr)
  /\ b_o' = InputStep(b_o, lr)
  /\ learning_rate' = lr
  /\ forward_log' = <<>>
  /\ calls' = Append(calls, "step")
  /\ raised' = FALSE
  /\ UNCHANGED <<shape, budget, cache, x_layer, returned, last_forward, fwd_locals, bwd_locals, pure>>

(* ----------------------------- clear_grad ------------------------------ *)
(* On a block that never ran forward, self.concat is None: the four        *)
(* projections are cleared and self.concat.clear_grad() raises.            *)
ClearGradUnset ==
  /\ constructed
  /\ Len(calls) < budget
  /\ concat.isNone
  /\ linear_q' = LayerClearGrad(linear_q)
  /\ linear_k' = LayerClearGrad(linear_k)
  /\ linear_v' = LayerClearGrad(linear_v)
  /\ linear_out' = LayerClearGrad(linear_out)
  /\ calls' = Append(calls, "clear_grad")
  /\ raised' = TRUE
  /\ UNCHANGED <<shape, budget, params, cache, x_layer, learning_rate, returned,
                 last_forward, forward_log, fwd_locals, bwd_locals, pure>>

ClearGradSkipsOne ==
  /\ constructed
  /\ Len(calls) < budget
  /\ ~concat.isNone
  /\ linear_q' = LayerClearGrad(linear_q)
  /\ linear_k' = LayerClearGrad(linear_k)
  /\ linear_v' = LayerClearGrad(linear_v)
  /\ linear_out' = LayerClearGrad(linear_out)
  /\ concat' = LayerClearGrad(concat)
  /\ W_k' = LayerClearGrad(W_k)
  /\ W_q' = LayerClearGrad(W_q)
  /\ W_v' = LayerClearGrad(W_v)
  /\ W_o' = W_o
  /\ b_k' = LayerClearGrad(b_k)
  /\ b_q' = LayerClearGrad(b_q)
  /\ b_v' = LayerClearGrad(b_v)
  /\ b_o' = LayerClearGrad(b_o)
  /\ calls' = Append(calls, "clear_grad")
  /\ raised' = FALSE
  /\ UNCHANGED <<shape, budget, qh, kh, vh, attn, mask, x_layer, learning_rate, returned,
                 last_forward, forward_log, fwd_locals, bwd_locals, pure>>

ClearGrad ==
  /\ constructed
  /\ Len(calls) < budget
  /\ ~concat.isNone
  /\ linear_q' = LayerClearGrad(linear_q)
  /\ linear_k' = LayerClearGrad(linear_k)
  /\ linear_v' = LayerClearGrad(linear_v)
  /\ linear_out' = LayerClearGrad(linear_out)
  /\ concat' = LayerClearGrad(concat)
  /\ W_k' = LayerClearGrad(W_k)
  /\ W_q' = LayerClearGrad(W_q)
  /\ W_v' = LayerClearGrad(W_v)
  /\ W_o' = LayerClearGrad(W_o)
  /\ b_k' = LayerClearGrad(b_k)
  /\ b_q' = LayerClearGrad(b_q)
  /\ b_v' = LayerClearGrad(b_v)
  /\ b_o' = LayerClearGrad(b_o)
  /\ calls' = Append(calls, "clear_grad")
  /\ raised' = FALSE
  /\ UNCHANGED <<shape, budget, qh, kh, vh, attn, mask, x_layer, learning_rate, returned,
                 last_forward, forward_log, fwd_locals, bwd_locals, pure>>

Next ==
  \/ \E xl \in InputLayers, m \in Masks : Forward(xl, m)
  \/ \E dep \in Deposits : Backward(dep)
  \/ BackwardUnset
  \/ \E lr \in LearningRates : Step(lr)
  \/ ClearGrad
  \/ ClearGradUnset

Spec == Init /\ [][Next]_vars

(* A longer run of one training loop on the widest block, with a mask that *)
(* blocks a whole row and a causal mask.                                   *)
InitLong ==
  /\ \E nh \in 1..MaxDModel : Constructible(MaxDModel, nh) /\ Construct(MaxDModel, nh, 1)
  /\ budget = LongCalls
  /\ NoCalls
  /\ PureIdle

NextLong ==
  \/ \E m \in {Blocked(SeqLen), Causal(SeqLen)} : Forward(InputLayer(1), m)
  \/ Backward(UpstreamGrad)
  \/ Step(1)

SpecLong == InitLong /\ [][NextLong]_vars

(* split_heads and combine_heads on their own: x of shape T x d_model with  *)
(* pairwise different entries, split, then combined.                       *)
PureX(t, seed) == Tup([i \in 1..t |-> Tup([j \in 1..d_model |-> seed * ((i - 1) * d_model + j)])])

InitHeads ==
  /\ \E dm \in 1..PureMaxD, nh \in 1..PureMaxD :
       Constructible(dm, nh) /\ Construct(dm, nh, 1)
  /\ budget = 0
  /\ NoCalls
  /\ pure_pc = "input"
  /\ \E t \in 1..PureMaxT, seed \in InputSeeds : pure_x = PureX(t, seed)
  /\ pure_split = <<>>
  /\ pure_combined = <<>>

PureSplit ==
  /\ pure_pc = "input"
  /\ pure_split' = split_heads(pure_x)
  /\ pure_pc' = "split"
  /\ UNCHANGED <<shape, params, linears, cache, x_layer, budget, calls, raised, learning_rate,
                 returned, last_forward, forward_log, fwd_locals, bwd_locals,
                 pure_x, pure_combined>>

PureCombine ==
  /\ pure_pc = "split"
  /\ pure_combined' = combine_heads(pure_split)
  /\ pure_pc' = "combined"
  /\ UNCHANGED <<shape, params, linears, cache, x_layer, budget, calls, raised, learning_rate,
                 returned, last_forward, forward_log, fwd_locals, bwd_locals,
                 pure_x, pure_split>>

NextHeads ==
  \/ PureSplit
  \/ PureCombine

SpecHeads == InitHeads /\ [][NextHeads]_vars

(* =============================== claims ================================ *)
Last(c) == c[Len(c)]
ByBackward == calls # <<>> /\ Last(calls) = "backward" /\ ~raised
Positions == {<<h, i, j>> : h \in 1..num_heads, i \in 1..SeqLen, j \in 1..SeqLen}

C3_CachesFromLastForward ==
  last_forward.x # <<>> =>
    /\ qh = split_heads(AddRow(MatMul(last_forward.x, last_forward.values.W_q),
                               last_forward.values.b_q))
    /\ kh = split_heads(AddRow(MatMul(last_forward.x, last_forward.values.W_k),
                               last_forward.values.b_k))
    /\ vh = split_heads(AddRow(MatMul(last_forward.x, last_forward.values.W_v),
                               last_forward.values.b_v))
    /\ mask = last_forward.mask
    /\ attn = Softmax(SdpaScores(qh, kh, last_forward.mask))
    /\ attn = returned.attn
    /\ ~concat.isNone
    /\ concat.output = combine_heads(SdpaOutput(attn, vh))

C3_Witness ==
  /\ calls = <<"forward", "forward", "backward">>
  /\ forward_log[1].mask # forward_log[2].mask
  /\ forward_log[1].x # forward_log[2].x
  /\ mask = forward_log[2].mask

(* C4: split_heads puts element (t, h*d_k + j) of x at (h, t, j), and     *)
(* combine_heads of the result is x again.                                *)
C4_RoundTrip ==
  /\ pure_pc \in {"split", "combined"} =>
       \A h \in 1..num_heads, t \in 1..Rows(pure_x), j \in 1..d_k :
         pure_split[h][t][j] = pure_x[t][(h - 1) * d_k + j]
  /\ pure_pc = "combined" => pure_combined = pure_x

C4_Witness ==
  /\ pure_pc = "combined"
  /\ num_heads >= 2
  /\ d_k >= 2
  /\ Rows(pure_x) >= 2
  /\ pure_combined = pure_x

(* C5: forward calls with the same input and the same mask and no step    *)
(* between them return the same output and the same attention weights.     *)
C5_Determinism ==
  \A a, b \in 1..Len(forward_log) :
    (forward_log[a].x = forward_log[b].x /\ forward_log[a].mask = forward_log[b].mask)
      => /\ forward_log[a].output = forward_log[b].output
         /\ forward_log[a].attn = forward_log[b].attn

C5_Witness ==
  /\ Len(forward_log) = 3
  /\ forward_log[1].x = forward_log[3].x
  /\ forward_log[1].mask = forward_log[3].mask
  /\ forward_log[2].mask # forward_log[1].mask
  /\ forward_log[3].mask # None

(* C6, as claimed: with a mask, in every row that has a nonzero mask       *)
(* position, a position where the mask is 0 has weight 0 and a position    *)
(* where it is nonzero keeps its unmasked score.                           *)
C6_MaskedWeightZero ==
  (scores # <<>> /\ mask # None) =>
    \A h \in 1..num_heads, i \in 1..SeqLen :
      (\E j \in 1..SeqLen : mask[i][j] # 0) =>
        \A j \in 1..SeqLen :
          /\ mask[i][j] = 0 => attn[h][i][j] = 0
          /\ mask[i][j] # 0 => scores[h][i][j] = SdpaRawScores(qh, kh)[h][i][j]

(* C6, amended: the same, for the rows whose scores at the nonzero mask    *)
(* positions are numbers (no NaN among them).                              *)
C6_MaskedWeightZeroFinite ==
  (scores # <<>> /\ mask # None) =>
    \A h \in 1..num_heads, i \in 1..SeqLen :
      ( /\ \E j \in 1..SeqLen : mask[i][j] # 0
        /\ \A j \in 1..SeqLen : mask[i][j] # 0 => scores[h][i][j] # NaN ) =>
        \A j \in 1..SeqLen :
          /\ mask[i][j] = 0 => attn[h][i][j] = 0
          /\ mask[i][j] # 0 => scores[h][i][j] = SdpaRawScores(qh, kh)[h][i][j]

C6_Witness ==
  /\ scores # <<>>
  /\ mask = Causal(SeqLen)
  /\ SdpaRawScores(qh, kh)[1][1][2] > 0
  /\ scores[1][1][2] = NegInf
  /\ attn[1][1][2] = 0
  /\ attn[1][1][1] = ONE

(* C7: a clear_grad that returns leaves every gradient accumulator (the    *)
(* four projections, the Concat adapter, the 8 Parameters) zero and        *)
(* changes no Parameter value and no cached forward-state field.           *)
C7_ClearGrad ==
  [][(calls' = Append(calls, "clear_grad") /\ ~raised') =>
       /\ IsZero(linear_q'.grad) /\ IsZero(linear_k'.grad)
       /\ IsZero(linear_v'.grad) /\ IsZero(linear_out'.grad)
       /\ IsZero(concat'.grad)
       /\ \A p \in ParamNames : IsZero(ParamGrads'[p])
       /\ ParamValues' = ParamValues
       /\ qh' = qh /\ kh' = kh /\ vh' = vh /\ attn' = attn /\ mask' = mask
       /\ concat'.isNone = concat.isNone
       /\ concat'.output = concat.output
       /\ concat'.layers_list = concat.layers_list]_vars

C7_Witness ==
  /\ calls = <<"forward", "backward", "clear_grad">>
  /\ ~raised
  /\ ~IsZero(grad_vh[1])
  /\ ~IsZero(grad_qh[1])
  /\ \A p \in ParamNames : IsZero(ParamGrads[p])

(* C8: construction succeeds exactly when num_heads divides d_model, and   *)
(* then d_model, num_heads are the arguments and d_k = d_model / num_heads *)
(* in every state.                                                         *)
C8_Divisibility ==
  /\ constructed <=> (ctor_args.d_model % ctor_args.num_heads = 0)
  /\ constructed =>
       /\ d_model = ctor_args.d_model
       /\ num_heads = ctor_args.num_heads
       /\ d_k = d_model \div num_heads
       /\ d_k * num_heads = d_model

C8_Witness ==
  /\ constructed
  /\ num_heads = 3
  /\ d_k = 1
  /\ calls = <<"forward", "backward", "step">>

(* C10: the mask backward applies to grad_scores is the one the most       *)
(* recent forward received; where it is 0 the score gradient is 0, not     *)
(* -inf, before grad_qh and grad_kh are computed from it; elsewhere, and   *)
(* everywhere when forward received no mask, it is left as computed.       *)
C10_BackwardMask ==
  ByBackward =>
    /\ bwd_mask = last_forward.mask
    /\ \A p \in Positions :
         grad_scores[p[1]][p[2]][p[3]] =
           IF bwd_mask # None /\ bwd_mask[p[2]][p[3]] = 0
           THEN 0
           ELSE grad_scores_raw[p[1]][p[2]][p[3]]
    /\ grad_qh = BDiv(BMatMul(grad_scores, kh), Sqrt(d_k))
    /\ grad_kh = BDiv(BMatMul(BTranspose(grad_scores), qh), Sqrt(d_k))

C10_Witness ==
  /\ ByBackward
  /\ bwd_mask = Blocked(SeqLen)
  /\ grad_scores_raw[1][1][1] = NaN
  /\ grad_scores[1][1][1] = 0
  /\ grad_scores[1][2][1] # 0

====
